---- MODULE Spec2Model ----
(***************************************************************************)
(* VeriAssets frontend: the Dutch-auction IPO detail page and the          *)
(* launchpad (src/frontend/src/app/history/page.tsx, IPODetailPage and     *)
(* LaunchpadPage), the asset page of the marketplace                       *)
(* (src/frontend/src/app/marketplace/[id]/page.tsx), the Qubic SDK         *)
(* (src/frontend/src/lib/qubic-sdk.ts) and the REST client                 *)
(* (src/frontend/src/lib/api.ts).                                          *)
(*                                                                         *)
(* Units.  Time is counted in ticks of 10 s (the period of the page's      *)
(* price interval) since 2025-01-01T00:00:00Z.  Prices are counted in      *)
(* 1/PriceScale USD, so that both the page's per-tick decrement            *)
(* (maxPrice - minPrice) / (24 * 60 * 6) and the linear per-tick decay of  *)
(* a 31-day auction are whole numbers.                                     *)
(***************************************************************************)
EXTENDS Integers, Sequences, FiniteSets, TLC

VARIABLES
    now,                \* Date.now(), in ticks
    now0,               \* the clock when the pages were opened
    ipoId,              \* params.id of the detail pages (the auction bid on)
    ipo,                \* per page: data of useQuery(['ipo', ipoId]), NoIPO while loading
    currentPrice,       \* per page: useState currentPrice
    bidAmount,          \* per page: useState bidAmount (text of the price input)
    tokenQuantity,      \* per page: useState tokenQuantity (text of the quantity input)
    timeLeft,           \* per page: useState timeLeft, in ticks
    priceInterval,      \* per page: priceInterval is "off" (cleared), "armed" or "due"
    isWalletConnected,  \* per page: useUserStore().isWalletConnected
    bidPending,         \* per page: variables of the pending bidMutation, NoBid when idle
    lastToast,          \* per page: title of the last toast
    bids,               \* bids reported as placed (bidMutation.onSuccess), oldest first
    wallet,             \* QubicSDK.wallet: TRUE when a wallet object is held
    sdkTxs,             \* transactions created by QubicSDK.sendTransaction
    sdkBids,            \* placeBid calls of the SDK, with the auction as it stood
    engine,             \* the auction as the backend holds it: status and availableSupply
    engineBids,         \* bids the backend has accepted, oldest first
    apiResult,          \* outcome of the last call to the backend
    activeTab,          \* LaunchpadPage: useState activeTab
    iposCache,          \* LaunchpadPage: data of useQuery(['ipos', tab]) per tab, NoList before the first fetch
    asset,              \* AssetDetailPage: data of useQuery(['asset', assetId]), NoAsset while loading
    orderType,          \* AssetDetailPage: useState orderType
    orderAmount,        \* AssetDetailPage: useState amount (text of the amount input)
    orderPrice,         \* AssetDetailPage: useState price (text of the price input)
    orderPending,       \* AssetDetailPage: variables of the pending createOrderMutation, NoOrder when idle
    orders,             \* orders reported as placed (createOrderMutation.onSuccess), oldest first
    walletAddress,      \* per page: useUserStore().walletAddress
    sdkAddress,         \* QubicSDK.wallet.address, NullAddress when no wallet is held
    sdkEvents,          \* events the SDK has emitted, oldest first
    sdkError,           \* message of the error the last SDK call threw, "" when it returned
    sockets,            \* useWebSocket: readyState of every WebSocket the hook created, oldest first
    wsRef,              \* useWebSocket: wsRef.current as a place in sockets, 0 for null
    reconnectCount,     \* useWebSocket: reconnectCountRef.current
    reconnectTimers,    \* useWebSocket: reconnect timeouts set and neither fired nor cleared
    reconnectTimeoutRef,\* useWebSocket: TRUE when the timeout held by reconnectTimeoutRef is still to fire
    isConnected,        \* useWebSocket: useState isConnected
    wsEffect,           \* useWebSocket: the connect/disconnect effect is "idle", "active" or "cleaned"
    closeOutcome,       \* useWebSocket: what the last onclose did about reconnecting
    notifications,      \* useNotifications: useState notifications, newest first
    unreadCount,        \* useNotifications: useState unreadCount
    acknowledged,       \* useNotifications: the ids acknowledge was called with
    wizardStep,         \* CreateAssetPage: useState step
    formData,           \* CreateAssetPage: useState formData
    verifyPending,      \* CreateAssetPage: variables of the pending verifyMutation, NoForm when idle
    verificationResult, \* CreateAssetPage: useState verificationResult, with the data it was computed from
    created,            \* CreateAssetPage: variables of the createAssetMutation calls, oldest first
    modalStep,          \* WalletConnectModal: useState step
    hookWallet,         \* useQubicWallet: useState wallet, as its address
    handlerWallet,      \* WalletConnectModal: wallet as the running handleConnect closed over it
    modalConnect        \* WalletConnectModal: where the running handleConnect stands

vars == << now, now0, ipoId, ipo, currentPrice, bidAmount, tokenQuantity, timeLeft,
           priceInterval, isWalletConnected, bidPending, lastToast, bids,
           wallet, sdkTxs, sdkBids, engine, engineBids, apiResult,
           activeTab, iposCache, asset, orderType, orderAmount, orderPrice, orderPending, orders,
           walletAddress, sdkAddress, sdkEvents, sdkError,
           sockets, wsRef, reconnectCount, reconnectTimers, reconnectTimeoutRef,
           isConnected, wsEffect, closeOutcome,
           notifications, unreadCount, acknowledged,
           wizardStep, formData, verifyPending, verificationResult, created,
           modalStep, hookWallet, handlerWallet, modalConnect >>

pageVars == << ipo, currentPrice, bidAmount, tokenQuantity, timeLeft,
               priceInterval, isWalletConnected, walletAddress, bidPending, lastToast, bids >>

sdkVars == << wallet, sdkAddress, sdkTxs, sdkBids, sdkEvents, sdkError >>

engineVars == << engine, engineBids, apiResult >>

launchpadVars == << activeTab, iposCache >>

marketVars == << asset, orderType, orderAmount, orderPrice, orderPending, orders >>

wsVars == << sockets, wsRef, reconnectCount, reconnectTimers, reconnectTimeoutRef,
             isConnected, wsEffect, closeOutcome >>

noteVars == << notifications, unreadCount, acknowledged >>

wizardVars == << wizardStep, formData, verifyPending, verificationResult, created >>

modalVars == << modalStep, hookWallet, handlerWallet, modalConnect >>

hookVars == << wsVars, noteVars, wizardVars, modalVars >>

----------------------------------------------------------------------------
(* Bounds of the model *)

\* ticks the clock may advance after the pages were opened
MaxElapsed == 2
\* bids one page may submit in a run
MaxBids == 1
\* transactions one run may send through the SDK
MaxTxs == 1
\* bids the engine may accept in a run
MaxEngineBids == 2
\* the largest quantity typed where the bid summary is examined
MaxSummaryQuantity == 4
\* orders the asset page may submit in a run
MaxOrders == 1
\* the largest whole amount typed into the order form
MaxOrderAmount == 2

\* the open detail pages, one per bidder
Bidders == DOMAIN ipo

Max(a, b) == IF a >= b THEN a ELSE b

\* bp basis points of x, rounded down
BasisPoints(x, bp) == (x \div 10000) * bp + ((x % 10000) * bp) \div 10000

RECURSIVE SumQuantity(_)
SumQuantity(s) == IF s = << >> THEN 0 ELSE Head(s).quantity + SumQuantity(Tail(s))

\* 'connected' and 'disconnected' events the SDK may emit in a run
MaxWalletEvents == 2
\* notifications the server may send in a run
MaxNotifications == 4
\* WebSocket objects one instance of useWebSocket may create in a run
MaxSockets == 6

----------------------------------------------------------------------------
(* Program constants *)

\* 24 * 60 * 6: the ticks the page spreads the decay over (page.tsx:983)
DecaySteps == 24 * 60 * 6
\* days between startTime and endTime of every mock auction (page.tsx:896-897)
AuctionDays == 31
PriceScale == DecaySteps * AuctionDays
\* IPO Fee: 1% of funds raised (README.md:167)
IpoFeeBps == 100
\* Trading Fee: 0.3% of transaction (README.md:165)
TradingFeeBps == 30
Usd(n) == n * PriceScale
Day(n) == n * DecaySteps

\* mockIPOs of the detail page; startTime and endTime as ticks since 2025-01-01
mockIPOs ==
    [ i \in {"1", "2", "3"} |->
        CASE i = "1" -> [ id |-> "1", status |-> "active",
                          totalTokens |-> 100000, availableTokens |-> 75000,
                          maxPrice |-> Usd(150), minPrice |-> Usd(80),
                          currentPrice |-> Usd(120),
                          startTime |-> Day(0), endTime |-> Day(31) ]
          [] i = "2" -> [ id |-> "2", status |-> "active",
                          totalTokens |-> 50000, availableTokens |-> 45000,
                          maxPrice |-> Usd(50), minPrice |-> Usd(25),
                          currentPrice |-> Usd(38),
                          startTime |-> Day(14), endTime |-> Day(45) ]
          [] i = "3" -> [ id |-> "3", status |-> "pending",
                          totalTokens |-> 10000, availableTokens |-> 10000,
                          maxPrice |-> Usd(500), minPrice |-> Usd(200),
                          currentPrice |-> Usd(500),
                          startTime |-> Day(59), endTime |-> Day(90) ] ]

\* mockIPOs[ipoId] || mockIPOs['1']
MockFallback(id) == IF id \in DOMAIN mockIPOs THEN mockIPOs[id] ELSE mockIPOs["1"]

NoIPO == [ id |-> "none" ]
NoBid == [ bidder |-> "none" ]
NoList == [ loaded |-> FALSE, list |-> {} ]
NoAsset == [ id |-> "none" ]
NoOrder == [ type |-> "none" ]

\* type TabType = 'active' | 'upcoming' | 'ended'
TabType == { "active", "upcoming", "ended" }

\* useNotifications: prev.slice(0, 49), the older notifications that are kept
KeptOlder == 49

\* useWebSocket: reconnectAttempts = 5, the default of the option, which no
\* caller of the hook overrides
reconnectAttempts == 5

----------------------------------------------------------------------------
(* Text inputs and their parsing *)

\* the text of an <input type="number">: empty, or a decimal numeral with
\* integer part val and tenths digit frac
EmptyText == [ txt |-> "", val |-> 0, frac |-> 0 ]
NumText(v) == [ txt |-> "num", val |-> v, frac |-> 0 ]
FracText(v, f) == [ txt |-> "num", val |-> v, frac |-> f ]

\* a JavaScript number: NaN, or n and frac tenths
NaN == [ nan |-> TRUE, n |-> 0, frac |-> 0 ]
Number(v, f) == [ nan |-> FALSE, n |-> v, frac |-> f ]

\* parseFloat(text): the whole numeral
parseFloat(t) == IF t.txt = "" THEN NaN ELSE Number(t.val, t.frac)
\* parseInt(text): the digits before the decimal point
parseInt(t) == IF t.txt = "" THEN NaN ELSE Number(t.val, 0)
\* String(number)
String(v) == NumText(v)
\* text || '0'
OrZero(t) == IF t.txt = "" THEN NumText(0) ELSE t
\* number || 0
NumOrZero(v) == IF v.nan THEN Number(0, 0) ELSE v

----------------------------------------------------------------------------
(* The backend behind GET /nostromo/ipo/{id}, as far as the page reads it *)

\* a currentPrice(auction, now) that does not single out startTime = endTime
LinearPriceUnguarded(a, t) ==
    IF t >= a.endTime THEN a.minPrice
    ELSE IF t <= a.startTime THEN a.maxPrice
    ELSE a.maxPrice - ((a.maxPrice - a.minPrice) \div (a.endTime - a.startTime))
                        * (t - a.startTime)

\* currentPrice(auction, now): linear decay from startPrice to reservePrice.
\* The slope is taken first: it is whole in price units and the product of
\* the price range and the elapsed ticks would not fit the checker's integers.
LinearPrice(a, t) ==
    IF a.endTime = a.startTime \/ t >= a.endTime THEN a.minPrice
    ELSE IF t <= a.startTime THEN a.maxPrice
    ELSE a.maxPrice - ((a.maxPrice - a.minPrice) \div (a.endTime - a.startTime))
                        * (t - a.startTime)

\* status by the auction window: Pending, Active from startTime, Ended at endTime
StatusAt(a, t) ==
    IF t < a.startTime THEN "pending"
    ELSE IF t < a.endTime THEN "active"
    ELSE "ended"

\* the auctions the backend holds: those the mock data mirrors, and auction
\* "4", whose startTime and endTime coincide
serverIPOs ==
    [ i \in DOMAIN mockIPOs \cup {"4"} |->
        IF i \in DOMAIN mockIPOs THEN mockIPOs[i]
        ELSE [ id |-> "4", status |-> "pending",
               totalTokens |-> 1000, availableTokens |-> 1000,
               maxPrice |-> Usd(150), minPrice |-> Usd(75),
               currentPrice |-> Usd(150),
               startTime |-> Day(1), endTime |-> Day(1) ] ]

\* the auction as served at time t
ServerIPO(id, t) ==
    [ serverIPOs[id] EXCEPT !.currentPrice = LinearPrice(serverIPOs[id], t),
                            !.status = StatusAt(serverIPOs[id], t) ]

----------------------------------------------------------------------------
(* The hooks, the wizard and the wallet dialog as they are constructed *)

\* walletAddress: null
NullAddress == "null"

\* formData, verificationResult and mutation variables that are absent
NoForm == [ assetType |-> "none" ]
NoResult == [ score |-> 0 ]

\* CreateAssetPage: useState formData as it starts
EmptyForm == [ assetType |-> "", name |-> "", description |-> "", valuation |-> "",
               totalSupply |-> "", documents |-> {} ]

\* QubicSDK: the fields a new instance holds beside wallet
SdkInitial ==
    /\ sdkAddress = NullAddress
    /\ sdkEvents = << >>
    /\ sdkError = ""

\* useWebSocket: useState and useRef before the first effect has run
WsInitial ==
    /\ sockets = << >>
    /\ wsRef = 0
    /\ reconnectCount = 0
    /\ reconnectTimers = 0
    /\ reconnectTimeoutRef = FALSE
    /\ isConnected = FALSE
    /\ wsEffect = "idle"
    /\ closeOutcome = "none"

\* useNotifications: useState
NotificationsInitial ==
    /\ notifications = << >>
    /\ unreadCount = 0
    /\ acknowledged = {}

\* CreateAssetPage: useState
WizardInitial ==
    /\ wizardStep = 1
    /\ formData = EmptyForm
    /\ verifyPending = NoForm
    /\ verificationResult = NoResult
    /\ created = << >>

\* WalletConnectModal and useQubicWallet: useState
ModalInitial ==
    /\ modalStep = "select"
    /\ hookWallet = NullAddress
    /\ handlerWallet = NullAddress
    /\ modalConnect = "idle"

----------------------------------------------------------------------------
(* IPODetailPage *)

\* const decrease = (ipo.maxPrice - ipo.minPrice) / (24 * 60 * 6)
decrease(a) == (a.maxPrice - a.minPrice) \div DecaySteps

\* the decrement without the floor at minPrice
newPriceUnclamped(a, prev) == prev - decrease(a)

\* Math.max(ipo.minPrice, prev - decrease)
newPrice(a, prev) == Max(a.minPrice, prev - decrease(a))

\* ipo.currentPrice || ipo.maxPrice
LoadedPrice(a) == IF a.currentPrice # 0 THEN a.currentPrice ELSE a.maxPrice

\* calculateTimeLeft: Math.max(0, endTime - now)
calculateTimeLeft(a, t) == Max(0, a.endTime - t)

\* the render with new query data and the effects on [ipo] and [ipo?.endTime]
\* that follow it, which run before any other handler of the page; data equal
\* to the data held keeps its reference and runs no effect
IpoLoaded(b, data) ==
    /\ data # ipo[b]
    /\ ipo' = [ipo EXCEPT ![b] = data]
    /\ currentPrice' = [currentPrice EXCEPT ![b] = LoadedPrice(data)]
    /\ bidAmount' = [bidAmount EXCEPT ![b] = String(LoadedPrice(data))]
    /\ priceInterval' = [priceInterval EXCEPT
                           ![b] = IF data.status = "active" THEN "armed" ELSE "off"]
    /\ timeLeft' = [timeLeft EXCEPT
                      ![b] = IF ipo[b] = NoIPO \/ ipo[b].endTime # data.endTime
                             THEN calculateTimeLeft(data, now) ELSE @]
    /\ UNCHANGED << now, now0, ipoId, hookVars, launchpadVars, marketVars,
                    tokenQuantity, isWalletConnected, walletAddress, bidPending,
                    lastToast, bids, sdkVars, engineVars >>

\* queryFn: api.nostromo.getIPO(ipoId) answered
QueryFetchApi(b) ==
    /\ ipoId \in DOMAIN serverIPOs
    /\ IpoLoaded(b, ServerIPO(ipoId, now))

\* queryFn: the request failed, the mock data is returned
QueryFetchMock(b) == IpoLoaded(b, MockFallback(ipoId))

\* priceInterval fires
PriceTick(b) ==
    /\ priceInterval[b] = "due"
    /\ currentPrice' = [currentPrice EXCEPT ![b] = newPrice(ipo[b], @)]
    /\ priceInterval' = [priceInterval EXCEPT ![b] = "armed"]
    /\ UNCHANGED << now, now0, ipoId, hookVars, launchpadVars, marketVars,
                    ipo, bidAmount, tokenQuantity, timeLeft,
                    isWalletConnected, walletAddress, bidPending, lastToast, bids, sdkVars, engineVars >>

\* texts the bidder types
BidAmountTexts(a) ==
    { EmptyText, NumText(a.minPrice - Usd(1)), NumText(a.minPrice) }
TokenQuantityTexts(a) ==
    { EmptyText, NumText(0), FracText(1, 5),
      NumText(a.availableTokens), NumText(a.availableTokens + 1) }

\* onChange of the price input
setBidAmount(b) ==
    /\ ipo[b] # NoIPO
    /\ \E t \in BidAmountTexts(ipo[b]) :
          /\ t # bidAmount[b]
          /\ bidAmount' = [bidAmount EXCEPT ![b] = t]
    /\ UNCHANGED << now, now0, ipoId, hookVars, launchpadVars, marketVars,
                    ipo, currentPrice, tokenQuantity, timeLeft,
                    priceInterval, isWalletConnected, walletAddress, bidPending, lastToast, bids,
                    sdkVars, engineVars >>

\* onChange of the quantity input
setTokenQuantity(b) ==
    /\ ipo[b] # NoIPO
    /\ \E t \in TokenQuantityTexts(ipo[b]) :
          /\ t # tokenQuantity[b]
          /\ tokenQuantity' = [tokenQuantity EXCEPT ![b] = t]
    /\ UNCHANGED << now, now0, ipoId, hookVars, launchpadVars, marketVars,
                    ipo, currentPrice, bidAmount, timeLeft,
                    priceInterval, isWalletConnected, walletAddress, bidPending, lastToast, bids,
                    sdkVars, engineVars >>

\* useUserStore: set({ walletAddress: address, isWalletConnected: connected })
setUser(b, address, connected) ==
    /\ walletAddress' = [walletAddress EXCEPT ![b] = address]
    /\ isWalletConnected' = [isWalletConnected EXCEPT ![b] = connected]

\* the wallet dialog connects: connectWallet(address) with the address it
\* generated or read from the connected wallet
connectWallet(b) ==
    /\ ~isWalletConnected[b]
    /\ setUser(b, "QUBICAAA", TRUE)
    /\ UNCHANGED << now, now0, ipoId, hookVars, launchpadVars, marketVars,
                    ipo, currentPrice, bidAmount, tokenQuantity,
                    timeLeft, priceInterval, bidPending, lastToast, bids, sdkVars, engineVars >>

\* Disconnect in the header: disconnectWallet()
disconnectWallet(b) ==
    /\ isWalletConnected[b]
    /\ setUser(b, NullAddress, FALSE)
    /\ UNCHANGED << now, now0, ipoId, hookVars, launchpadVars, marketVars,
                    ipo, currentPrice, bidAmount, tokenQuantity,
                    timeLeft, priceInterval, bidPending, lastToast, bids, sdkVars, engineVars >>

\* !!address
Truthy(address) == address \notin {NullAddress, ""}

\* the strings a caller of the store may pass as an address
StoreAddresses == {"", "QUBICAAA", "QUBICBBB"}

\* setWalletAddress(address), address a string or null
StoreSetWalletAddress(b) ==
    /\ \E address \in StoreAddresses \cup {NullAddress} :
          setUser(b, address, Truthy(address))
    /\ UNCHANGED << now, now0, ipoId, hookVars, launchpadVars, marketVars,
                    ipo, currentPrice, bidAmount, tokenQuantity,
                    timeLeft, priceInterval, bidPending, lastToast, bids, sdkVars, engineVars >>

\* connectWallet(address), address a string
StoreConnectWallet(b) ==
    /\ \E address \in StoreAddresses : setUser(b, address, TRUE)
    /\ UNCHANGED << now, now0, ipoId, hookVars, launchpadVars, marketVars,
                    ipo, currentPrice, bidAmount, tokenQuantity,
                    timeLeft, priceInterval, bidPending, lastToast, bids, sdkVars, engineVars >>

\* disconnectWallet()
StoreDisconnectWallet(b) ==
    /\ setUser(b, NullAddress, FALSE)
    /\ UNCHANGED << now, now0, ipoId, hookVars, launchpadVars, marketVars,
                    ipo, currentPrice, bidAmount, tokenQuantity,
                    timeLeft, priceInterval, bidPending, lastToast, bids, sdkVars, engineVars >>

\* a bid button that is enabled whatever the status of the auction is
BidButtonDisabledWhateverStatus(b) ==
    \/ ~isWalletConnected[b]
    \/ bidPending[b] # NoBid

\* disabled={!isWalletConnected || ipo.status !== 'active' || bidMutation.isPending}
BidButtonDisabled(b) ==
    \/ ~isWalletConnected[b]
    \/ ipo[b].status # "active"
    \/ bidPending[b] # NoBid

\* isNaN(price) || price < (ipo?.minPrice || 0); minPrice is whole, so the
\* tenths of the price do not decide the comparison
PriceRejected(a, price) == price.nan \/ price.n < a.minPrice

\* isNaN(quantity) || quantity < 1
QuantityRejected(a, quantity) == quantity.nan \/ quantity.n < 1

\* bids the page of bidder b has submitted so far
Submitted(b) ==
    Cardinality({ i \in 1..Len(bids) : bids[i].bidder = b })
        + (IF bidPending[b] # NoBid THEN 1 ELSE 0)

\* bidMutation.mutate({ price, quantity })
BidOf(b, price, quantity) == [ bidder |-> b, price |-> price, quantity |-> quantity ]

\* handleBid, run by a click on the bid button
handleBid(b) ==
    /\ ipo[b] # NoIPO
    /\ ~BidButtonDisabled(b)
    /\ Submitted(b) < MaxBids
    /\ LET price == parseFloat(bidAmount[b])
           quantity == parseInt(tokenQuantity[b])
       IN  IF ~isWalletConnected[b]
           THEN UNCHANGED << bidPending, lastToast >>
           ELSE IF PriceRejected(ipo[b], price)
           THEN /\ lastToast' = [lastToast EXCEPT ![b] = "Invalid Bid"]
                /\ UNCHANGED bidPending
           ELSE IF QuantityRejected(ipo[b], quantity)
           THEN /\ lastToast' = [lastToast EXCEPT ![b] = "Invalid Quantity"]
                /\ UNCHANGED bidPending
           ELSE /\ bidPending' = [bidPending EXCEPT ![b] = BidOf(b, price.n, quantity.n)]
                /\ UNCHANGED lastToast
    /\ UNCHANGED << now, now0, ipoId, hookVars, launchpadVars, marketVars,
                    ipo, currentPrice, bidAmount, tokenQuantity,
                    timeLeft, priceInterval, isWalletConnected, walletAddress, bids, sdkVars, engineVars >>

\* bidMutation: mutationFn resolves { success: true }, then onSuccess
BidSettled(b) ==
    /\ bidPending[b] # NoBid
    /\ bids' = Append(bids, bidPending[b])
    /\ bidPending' = [bidPending EXCEPT ![b] = NoBid]
    /\ lastToast' = [lastToast EXCEPT ![b] = "Bid Placed Successfully!"]
    /\ UNCHANGED << now, now0, ipoId, hookVars, launchpadVars, marketVars,
                    ipo, currentPrice, bidAmount, tokenQuantity,
                    timeLeft, priceInterval, isWalletConnected, walletAddress, sdkVars, engineVars >>

\* ten seconds pass: every armed priceInterval falls due, and the countdown
\* timer (period 1 s) has run calculateTimeLeft; a due priceInterval fires first
ClockAdvance ==
    /\ now < now0 + MaxElapsed
    /\ \A b \in Bidders : priceInterval[b] # "due"
    /\ now' = now + 1
    /\ priceInterval' = [b \in Bidders |->
                           IF priceInterval[b] = "armed" THEN "due" ELSE priceInterval[b]]
    /\ timeLeft' = [b \in Bidders |->
                      IF ipo[b] = NoIPO THEN timeLeft[b]
                      ELSE calculateTimeLeft(ipo[b], now + 1)]
    /\ UNCHANGED << now0, ipoId, hookVars, launchpadVars, marketVars,
                    ipo, currentPrice, bidAmount, tokenQuantity,
                    isWalletConnected, walletAddress, bidPending, lastToast, bids, sdkVars, engineVars >>

\* the clock readings the pages are opened at, around the window of the auction
OpeningTimes(a) == { a.startTime - 1, a.endTime - 2 }

\* the state right after the pages of the bidders in P have mounted
Mounted(P) ==
    /\ ipo = [b \in P |-> NoIPO]
    /\ currentPrice = [b \in P |-> 0]
    /\ bidAmount = [b \in P |-> EmptyText]
    /\ tokenQuantity = [b \in P |-> NumText(1)]
    /\ timeLeft = [b \in P |-> 0]
    /\ priceInterval = [b \in P |-> "off"]
    /\ isWalletConnected = [b \in P |-> FALSE]
    /\ bidPending = [b \in P |-> NoBid]
    /\ lastToast = [b \in P |-> ""]
    /\ bids = << >>
    /\ wallet = FALSE
    /\ sdkTxs = << >>
    /\ sdkBids = << >>
    /\ engine = [ status |-> StatusAt(MockFallback(ipoId), now),
                  availableSupply |-> MockFallback(ipoId).availableTokens ]
    /\ engineBids = << >>
    /\ apiResult = ""
    /\ activeTab = "active"
    /\ iposCache = [t \in TabType |-> NoList]
    /\ asset = [b \in P |-> NoAsset]
    /\ orderType = [b \in P |-> "buy"]
    /\ orderAmount = [b \in P |-> EmptyText]
    /\ orderPrice = [b \in P |-> EmptyText]
    /\ orderPending = [b \in P |-> NoOrder]
    /\ orders = << >>
    /\ walletAddress = [b \in P |-> NullAddress]
    /\ SdkInitial
    /\ WsInitial
    /\ NotificationsInitial
    /\ WizardInitial
    /\ ModalInitial

\* one bidder opens the detail page of some auction
Init ==
    /\ ipoId \in DOMAIN mockIPOs \cup {"7"}
    /\ now \in OpeningTimes(MockFallback(ipoId))
    /\ now0 = now
    /\ Mounted({"alice"})

Next ==
    \/ ClockAdvance
    \/ \E b \in Bidders : QueryFetchApi(b)
    \/ \E b \in Bidders : QueryFetchMock(b)
    \/ \E b \in Bidders : PriceTick(b)
    \/ \E b \in Bidders : setBidAmount(b)
    \/ \E b \in Bidders : setTokenQuantity(b)
    \/ \E b \in Bidders : connectWallet(b)
    \/ \E b \in Bidders : disconnectWallet(b)
    \/ \E b \in Bidders : handleBid(b)
    \/ \E b \in Bidders : BidSettled(b)

Spec == Init /\ [][Next]_vars

\* one bidder on the detail page, with the user store written through any of
\* its three operations; the clock stands still
NextWallet ==
    \/ \E b \in Bidders : QueryFetchApi(b)
    \/ \E b \in Bidders : QueryFetchMock(b)
    \/ \E b \in Bidders : setBidAmount(b)
    \/ \E b \in Bidders : setTokenQuantity(b)
    \/ \E b \in Bidders : StoreSetWalletAddress(b)
    \/ \E b \in Bidders : StoreConnectWallet(b)
    \/ \E b \in Bidders : StoreDisconnectWallet(b)
    \/ \E b \in Bidders : handleBid(b)
    \/ \E b \in Bidders : BidSettled(b)

SpecWallet == Init /\ [][NextWallet]_vars

\* two bidders have the detail page of the same auction open; they load the
\* auction, connect, choose a quantity and bid
InitContention ==
    /\ ipoId \in DOMAIN mockIPOs
    /\ now = MockFallback(ipoId).startTime + Day(1)
    /\ now0 = now
    /\ Mounted({"alice", "bob"})

NextContention ==
    \/ \E b \in Bidders : QueryFetchApi(b)
    \/ \E b \in Bidders : QueryFetchMock(b)
    \/ \E b \in Bidders : setTokenQuantity(b)
    \/ \E b \in Bidders : connectWallet(b)
    \/ \E b \in Bidders : handleBid(b)
    \/ \E b \in Bidders : BidSettled(b)

SpecContention == InitContention /\ [][NextContention]_vars

\* two visitors have the detail page of the same auction open and watch its
\* price; each page loads and reloads the auction on its own
InitViews ==
    /\ ipoId \in DOMAIN serverIPOs
    /\ now \in OpeningTimes(serverIPOs[ipoId])
    /\ now0 = now
    /\ Mounted({"alice", "bob"})

NextViews ==
    \/ ClockAdvance
    \/ \E b \in Bidders : QueryFetchApi(b)
    \/ \E b \in Bidders : QueryFetchMock(b)
    \/ \E b \in Bidders : PriceTick(b)

SpecViews == InitViews /\ [][NextViews]_vars

\* the bid summary of the detail page.  The prices typed in the model are
\* whole in price units, so the product with the quantity is whole; a product
\* with 0.003 or 1.003 is kept to the price unit, far below the cent shown.

\* const totalCost = parseFloat(bidAmount || '0') * parseInt(tokenQuantity || '0')
totalCost(b) == parseFloat(OrZero(bidAmount[b])).n * parseInt(OrZero(tokenQuantity[b])).n

\* Platform Fee (0.3%): totalCost * 0.003
PlatformFee(b) == BasisPoints(totalCost(b), 30)

\* Total Cost: totalCost * 1.003
SummaryTotalCost(b) == BasisPoints(totalCost(b), 10030)

\* prices and quantities typed where the bid summary is examined
SummaryPriceTexts(a) == { NumText(a.minPrice), String(LoadedPrice(a)), NumText(a.maxPrice) }
SummaryQuantityTexts == { EmptyText } \cup { NumText(q) : q \in 0..MaxSummaryQuantity }

\* a bidder has loaded the detail page (mock data) and filled in the bid form
InitSummary ==
    /\ ipoId \in DOMAIN mockIPOs
    /\ now \in OpeningTimes(MockFallback(ipoId))
    /\ now0 = now
    /\ ipo = [b \in {"alice"} |-> MockFallback(ipoId)]
    /\ currentPrice = [b \in {"alice"} |-> LoadedPrice(MockFallback(ipoId))]
    /\ bidAmount \in [{"alice"} -> SummaryPriceTexts(MockFallback(ipoId))]
    /\ tokenQuantity \in [{"alice"} -> SummaryQuantityTexts]
    /\ timeLeft = [b \in {"alice"} |-> calculateTimeLeft(MockFallback(ipoId), now)]
    /\ priceInterval = [b \in {"alice"} |->
                          IF MockFallback(ipoId).status = "active" THEN "armed" ELSE "off"]
    /\ isWalletConnected = [b \in {"alice"} |-> FALSE]
    /\ bidPending = [b \in {"alice"} |-> NoBid]
    /\ lastToast = [b \in {"alice"} |-> ""]
    /\ bids = << >>
    /\ wallet = FALSE
    /\ sdkTxs = << >>
    /\ sdkBids = << >>
    /\ engine = [ status |-> StatusAt(MockFallback(ipoId), now),
                  availableSupply |-> MockFallback(ipoId).availableTokens ]
    /\ engineBids = << >>
    /\ apiResult = ""
    /\ activeTab = "active"
    /\ iposCache = [t \in TabType |-> NoList]
    /\ asset = [b \in {"alice"} |-> NoAsset]
    /\ orderType = [b \in {"alice"} |-> "buy"]
    /\ orderAmount = [b \in {"alice"} |-> EmptyText]
    /\ orderPrice = [b \in {"alice"} |-> EmptyText]
    /\ orderPending = [b \in {"alice"} |-> NoOrder]
    /\ orders = << >>
    /\ walletAddress = [b \in {"alice"} |-> NullAddress]
    /\ SdkInitial
    /\ WsInitial
    /\ NotificationsInitial
    /\ WizardInitial
    /\ ModalInitial

NextSummary ==
    \/ \E b \in Bidders : connectWallet(b)
    \/ \E b \in Bidders : disconnectWallet(b)
    \/ \E b \in Bidders : handleBid(b)
    \/ \E b \in Bidders : BidSettled(b)

SpecSummary == InitSummary /\ [][NextSummary]_vars

----------------------------------------------------------------------------
(* AssetDetailPage (marketplace/[id]) *)

\* mockAssets, as far as the order form reads them; currentPrice in cents
mockAssets ==
    [ i \in {"1", "2", "3", "4"} |->
        [ id |-> i,
          currentPrice |-> CASE i = "1" -> 25000
                             [] i = "2" -> 4550
                             [] i = "3" -> 105000
                             [] i = "4" -> 18000 ] ]

\* mockAssets[assetId] || mockAssets['1']
MockAssetFallback(id) == IF id \in DOMAIN mockAssets THEN mockAssets[id] ELSE mockAssets["1"]

\* queryFn of ['asset', assetId]: the request failed, the mock data is returned;
\* assetId is the id of the route the page was opened on
AssetQueryMock(b) ==
    /\ asset[b] = NoAsset
    /\ \E assetId \in DOMAIN mockAssets \cup {"9"} :
          asset' = [asset EXCEPT ![b] = MockAssetFallback(assetId)]
    /\ UNCHANGED << now, now0, ipoId, hookVars, launchpadVars, orderType, orderAmount, orderPrice,
                    orderPending, orders, pageVars, sdkVars, engineVars >>

\* onClick of the Buy and Sell buttons
setOrderType(b) ==
    /\ asset[b] # NoAsset
    /\ \E t \in {"buy", "sell"} :
          /\ t # orderType[b]
          /\ orderType' = [orderType EXCEPT ![b] = t]
    /\ UNCHANGED << now, now0, ipoId, hookVars, launchpadVars, asset, orderAmount, orderPrice,
                    orderPending, orders, pageVars, sdkVars, engineVars >>

\* texts typed into the amount input
AmountTexts ==
    { EmptyText, NumText(0), NumText(1), FracText(1, 5), NumText(MaxOrderAmount) }

\* onChange of the amount input
setAmount(b) ==
    /\ asset[b] # NoAsset
    /\ \E t \in AmountTexts :
          /\ t # orderAmount[b]
          /\ orderAmount' = [orderAmount EXCEPT ![b] = t]
    /\ UNCHANGED << now, now0, ipoId, hookVars, launchpadVars, asset, orderType, orderPrice,
                    orderPending, orders, pageVars, sdkVars, engineVars >>

\* onChange of the price input
setPrice(b) ==
    /\ asset[b] # NoAsset
    /\ \E t \in { EmptyText, NumText(0) } :
          /\ t # orderPrice[b]
          /\ orderPrice' = [orderPrice EXCEPT ![b] = t]
    /\ UNCHANGED << now, now0, ipoId, hookVars, launchpadVars, asset, orderType, orderAmount,
                    orderPending, orders, pageVars, sdkVars, engineVars >>

\* Use market price: setPrice(String(asset.currentPrice || 0))
UseMarketPrice(b) ==
    /\ asset[b] # NoAsset
    /\ orderPrice' = [orderPrice EXCEPT ![b] = String(asset[b].currentPrice)]
    /\ orderPrice' # orderPrice
    /\ UNCHANGED << now, now0, ipoId, hookVars, launchpadVars, asset, orderType, orderAmount,
                    orderPending, orders, pageVars, sdkVars, engineVars >>

\* the order summary.  Money is counted in 1/100000 USD: an amount in tenths
\* of a token times a price in cents, times 100, so that the products with
\* 0.003, 0.997 and 1.003 are whole for the prices of the mock assets.

\* the value of amt tokens (a number with tenths) at prc cents each
Value(amt, prc) == (10 * amt.n + amt.frac) * prc.n * 100

\* const totalValue = (parseFloat(amount) || 0) * (parseFloat(price) || 0)
totalValue(b) ==
    Value(NumOrZero(parseFloat(orderAmount[b])), NumOrZero(parseFloat(orderPrice[b])))

\* Fee (0.3%): totalValue * 0.003
OrderFee(b) == BasisPoints(totalValue(b), 30)

\* You pay / You receive: totalValue * 1.003 or totalValue * 0.997
OrderSettlement(b) ==
    IF orderType[b] = "buy" THEN BasisPoints(totalValue(b), 10030)
    ELSE BasisPoints(totalValue(b), 9970)

\* disabled={!isWalletConnected || createOrderMutation.isPending}
OrderButtonDisabled(b) == ~isWalletConnected[b] \/ orderPending[b] # NoOrder

\* handleOrder, run by a click on the submit button
handleOrder(b) ==
    /\ asset[b] # NoAsset
    /\ ~OrderButtonDisabled(b)
    /\ Len(orders) < MaxOrders
    /\ LET quantity == parseInt(orderAmount[b])
           priceValue == parseFloat(orderPrice[b])
       IN  IF ~isWalletConnected[b] THEN UNCHANGED orderPending
           ELSE IF quantity.nan \/ quantity.n <= 0 THEN UNCHANGED orderPending
           ELSE IF priceValue.nan \/ priceValue.n <= 0 THEN UNCHANGED orderPending
           ELSE orderPending' = [orderPending EXCEPT
                    ![b] = [ type |-> orderType[b], quantity |-> quantity.n,
                             pricePerToken |-> priceValue.n ]]
    /\ UNCHANGED << now, now0, ipoId, hookVars, launchpadVars, asset, orderType, orderAmount,
                    orderPrice, orders, pageVars, sdkVars, engineVars >>

\* createOrderMutation: mutationFn resolves { success: true }, then onSuccess
OrderSettled(b) ==
    /\ orderPending[b] # NoOrder
    /\ orders' = Append(orders, orderPending[b])
    /\ orderPending' = [orderPending EXCEPT ![b] = NoOrder]
    /\ orderAmount' = [orderAmount EXCEPT ![b] = EmptyText]
    /\ orderPrice' = [orderPrice EXCEPT ![b] = EmptyText]
    /\ UNCHANGED << now, now0, ipoId, hookVars, launchpadVars, asset, orderType,
                    pageVars, sdkVars, engineVars >>

\* a trader opens the page of an asset
InitMarket ==
    /\ ipoId = "1"
    /\ now \in OpeningTimes(MockFallback(ipoId))
    /\ now0 = now
    /\ Mounted({"alice"})

NextMarket ==
    \/ \E b \in Bidders : AssetQueryMock(b)
    \/ \E b \in Bidders : setOrderType(b)
    \/ \E b \in Bidders : setAmount(b)
    \/ \E b \in Bidders : setPrice(b)
    \/ \E b \in Bidders : UseMarketPrice(b)
    \/ \E b \in Bidders : connectWallet(b)
    \/ \E b \in Bidders : disconnectWallet(b)
    \/ \E b \in Bidders : handleOrder(b)
    \/ \E b \in Bidders : OrderSettled(b)

SpecMarket == InitMarket /\ [][NextMarket]_vars

----------------------------------------------------------------------------
(* LaunchpadPage *)

\* mockIPOs of the launchpad page, as far as the list is read here
launchpadIPOs == { [ id |-> i, status |-> "active" ] : i \in {"1", "2", "3"} }

\* GET /nostromo/active-ipos?status=...: the auctions of that status
ServerList(status, t) ==
    { [ id |-> i, status |-> ServerIPO(i, t).status ] :
        i \in { j \in DOMAIN serverIPOs : ServerIPO(j, t).status = status } }

\* a fallback that hands out the whole mock list on every tab
MockListUnfiltered(tab) == launchpadIPOs

\* mockIPOs.filter(ipo => ipo.status === activeTab || activeTab === 'active')
MockList(tab) == { i \in launchpadIPOs : i.status = tab \/ tab = "active" }

\* the query ['ipos', activeTab] gets new data
IposLoaded(list) ==
    /\ iposCache' = [iposCache EXCEPT ![activeTab] = [ loaded |-> TRUE, list |-> list ]]
    /\ iposCache' # iposCache
    /\ UNCHANGED << now, now0, ipoId, hookVars, activeTab, marketVars, pageVars, sdkVars, engineVars >>

\* queryFn: api.nostromo.listIPOs(activeTab) answered; result?.length ? result : mock
ListFetchApi ==
    LET result == ServerList(activeTab, now)
    IN  IposLoaded(IF result # {} THEN result ELSE MockList(activeTab))

\* queryFn: the request failed, the filtered mock list is returned
ListFetchMock == IposLoaded(MockList(activeTab))

\* onClick of a tab button
setActiveTab ==
    /\ \E tab \in TabType :
          /\ tab # activeTab
          /\ activeTab' = tab
    /\ UNCHANGED << now, now0, ipoId, hookVars, iposCache, marketVars, pageVars, sdkVars, engineVars >>

\* a visitor has the launchpad open around the start or the end of an auction
InitLaunchpad ==
    /\ ipoId = "1"
    /\ now \in UNION { OpeningTimes(serverIPOs[i]) : i \in DOMAIN serverIPOs }
    /\ now0 = now
    /\ Mounted({"alice"})

NextLaunchpad ==
    \/ ClockAdvance
    \/ setActiveTab
    \/ ListFetchApi
    \/ ListFetchMock

SpecLaunchpad == InitLaunchpad /\ [][NextLaunchpad]_vars

----------------------------------------------------------------------------
(* QubicSDK *)

\* generateDemoAddress(), or the address of the account the extension returns
WalletAddresses == { "QUBICAAA", "QUBICBBB" }

\* emit('connected', ...) and emit('disconnected', ...) so far
WalletEvents == SelectSeq(sdkEvents, LAMBDA e : e.type \in {"connected", "disconnected"})

\* connect() resolves with a wallet of the given address: this.wallet is set and
\* 'connected' is emitted
Connected(address) ==
    /\ wallet' = TRUE
    /\ sdkAddress' = address
    /\ sdkEvents' = Append(sdkEvents, [ type |-> "connected", tx |-> 0 ])
    /\ sdkError' = ""

\* connect(): the wallet extension answers, or the demo wallet is generated
SdkConnect ==
    /\ Len(WalletEvents) < MaxWalletEvents
    /\ \E address \in WalletAddresses : Connected(address)
    /\ UNCHANGED << now, now0, ipoId, hookVars, launchpadVars, marketVars,
                    pageVars, sdkTxs, sdkBids, engineVars >>

\* connect(): qubic.connect() of the extension rejects
SdkConnectFails ==
    /\ sdkError' = "Wallet connection failed"
    /\ UNCHANGED << now, now0, ipoId, hookVars, launchpadVars, marketVars,
                    pageVars, wallet, sdkAddress, sdkTxs, sdkBids, sdkEvents, engineVars >>

\* disconnect()
SdkDisconnect ==
    /\ wallet
    /\ Len(WalletEvents) < MaxWalletEvents
    /\ wallet' = FALSE
    /\ sdkAddress' = NullAddress
    /\ sdkEvents' = Append(sdkEvents, [ type |-> "disconnected", tx |-> 0 ])
    /\ sdkError' = ""
    /\ UNCHANGED << now, now0, ipoId, hookVars, launchpadVars, marketVars,
                    pageVars, sdkTxs, sdkBids, engineVars >>

\* getWallet(), as the address of the wallet
getWallet == IF wallet THEN sdkAddress ELSE NullAddress

\* isConnected(): this.wallet?.connected ?? false; every wallet the SDK makes
\* has connected: true
SdkIsConnected == IF wallet THEN TRUE ELSE FALSE

\* a check of the wallet that lets every call pass
NotConnectedNever == FALSE

\* if (!this.wallet)
NotConnected == ~wallet

\* throw new Error('Wallet not connected')
Throws ==
    /\ sdkError' = "Wallet not connected"
    /\ UNCHANGED << wallet, sdkAddress, sdkTxs, sdkBids, sdkEvents >>

\* a transaction that is confirmed as soon as it is built
NewTxConfirmed(to, amount) == [ to |-> to, amount |-> amount, status |-> "confirmed" ]

\* the transaction sendTransaction(to, amount) builds and returns
NewTx(to, amount) == [ to |-> to, amount |-> amount, status |-> "pending" ]

\* the body of sendTransaction and transferToken past the check of the wallet:
\* the transaction is built, its setTimeout is set and the event is emitted
Sent(to, amount, event) ==
    /\ sdkTxs' = Append(sdkTxs, NewTx(to, amount))
    /\ sdkEvents' = Append(sdkEvents, [ type |-> event, tx |-> Len(sdkTxs) + 1 ])

\* refreshBalance(), getTokenBalances(), signMessage(message): they read the
\* wallet and answer, also when their fetch fails
SdkQuery ==
    /\ IF NotConnected
       THEN Throws
       ELSE /\ sdkError' = ""
            /\ UNCHANGED << wallet, sdkAddress, sdkTxs, sdkBids, sdkEvents >>
    /\ UNCHANGED << now, now0, ipoId, hookVars, launchpadVars, marketVars,
                    pageVars, engineVars >>

\* callContract(call), and createRWAToken(params) which is one callContract:
\* the fetch resolves or rejects
SdkCallContract ==
    /\ IF NotConnected
       THEN Throws
       ELSE /\ sdkError' \in {"", "Failed to fetch"}
            /\ UNCHANGED << wallet, sdkAddress, sdkTxs, sdkBids, sdkEvents >>
    /\ UNCHANGED << now, now0, ipoId, hookVars, launchpadVars, marketVars,
                    pageVars, engineVars >>

\* sendTransaction(to, amount), called directly
SdkSendTransaction ==
    /\ IF NotConnected
       THEN Throws
       ELSE /\ Len(sdkTxs) < MaxTxs
            /\ \E amount \in {0, 1} : Sent("RECIPIENT", amount, "transactionSent")
            /\ sdkError' = ""
            /\ UNCHANGED << wallet, sdkAddress, sdkBids >>
    /\ UNCHANGED << now, now0, ipoId, hookVars, launchpadVars, marketVars,
                    pageVars, engineVars >>

\* transferToken(tokenId, to, amount)
SdkTransferToken ==
    /\ IF NotConnected
       THEN Throws
       ELSE /\ Len(sdkTxs) < MaxTxs
            /\ Sent("RECIPIENT", 1, "tokenTransfer")
            /\ sdkError' = ""
            /\ UNCHANGED << wallet, sdkAddress, sdkBids >>
    /\ UNCHANGED << now, now0, ipoId, hookVars, launchpadVars, marketVars,
                    pageVars, engineVars >>

\* the setTimeout of sendTransaction or transferToken fires
SdkConfirm ==
    /\ \E i \in 1..Len(sdkTxs) :
          /\ sdkTxs[i].status = "pending"
          /\ sdkTxs' = [sdkTxs EXCEPT ![i].status = "confirmed"]
          /\ sdkEvents' = Append(sdkEvents, [ type |-> "transactionConfirmed", tx |-> i ])
    /\ UNCHANGED << now, now0, ipoId, hookVars, launchpadVars, marketVars,
                    pageVars, wallet, sdkAddress, sdkBids, sdkError, engineVars >>

\* vote(proposalId, voteFor, amount) and tradeRWAToken(params): sendTransaction
\* to the contract, then callContract, whose fetch resolves or rejects
SdkContractTransaction ==
    /\ IF NotConnected
       THEN Throws
       ELSE /\ Len(sdkTxs) < MaxTxs
            /\ \E to \in {"GOVERNANCE_CONTRACT_ADDRESS", "RWA_TRADING_CONTRACT_ADDRESS"} :
                  Sent(to, 0, "transactionSent")
            /\ sdkError' \in {"", "Failed to fetch"}
            /\ UNCHANGED << wallet, sdkAddress, sdkBids >>
    /\ UNCHANGED << now, now0, ipoId, hookVars, launchpadVars, marketVars,
                    pageVars, engineVars >>

\* the auctions a caller of the SDK can name, as the mock data or the backend
\* describes them
KnownAuctions ==
    { mockIPOs[i] : i \in DOMAIN mockIPOs } \cup { ServerIPO(i, now) : i \in DOMAIN mockIPOs }

\* placeBid(auctionId, amount, maxPrice): sendTransaction of maxPrice * amount,
\* then callContract, whose fetch resolves (called) or rejects (failed); tx is
\* the place in sdkTxs of the transaction that sendTransaction returned
SdkPlaceBid ==
    /\ IF NotConnected
       THEN Throws
       ELSE /\ Len(sdkTxs) < MaxTxs
            /\ \E a \in KnownAuctions, amount \in {0, 1}, maxPrice \in {1, 2},
                  call \in {"called", "failed"} :
                  /\ Sent("DUTCH_AUCTION_CONTRACT_ADDRESS", maxPrice * amount,
                          "transactionSent")
                  /\ sdkBids' = Append(sdkBids, [ auction |-> a.id, status |-> a.status,
                                                  tx |-> Len(sdkTxs) + 1, call |-> call ])
                  /\ sdkError' = IF call = "failed" THEN "Failed to fetch" ELSE ""
            /\ UNCHANGED << wallet, sdkAddress >>
    /\ UNCHANGED << now, now0, ipoId, hookVars, launchpadVars, marketVars,
                    pageVars, engineVars >>

InitSdk ==
    /\ ipoId = "1"
    /\ now \in OpeningTimes(MockFallback(ipoId))
    /\ now0 = now
    /\ Mounted({"alice"})

NextSdk ==
    \/ SdkConnect
    \/ SdkConnectFails
    \/ SdkDisconnect
    \/ SdkQuery
    \/ SdkCallContract
    \/ SdkSendTransaction
    \/ SdkTransferToken
    \/ SdkConfirm
    \/ SdkContractTransaction
    \/ SdkPlaceBid

SpecSdk == InitSdk /\ [][NextSdk]_vars

\* sendTransaction and transferToken called directly, with a wallet or without
NextSdkTransactions ==
    \/ SdkConnect
    \/ SdkDisconnect
    \/ SdkSendTransaction
    \/ SdkTransferToken
    \/ SdkConfirm

\* a setTimeout that was set fires: nothing clears the timeout of a transaction
SpecSdkTimers == InitSdk /\ [][NextSdkTransactions]_vars /\ WF_vars(SdkConfirm)

----------------------------------------------------------------------------
(* The auction engine behind POST /nostromo/ipo/{id}/bid *)

Terminal == { "soldout", "ended", "cancelled" }

\* the parameters of the auction the engine runs
Auction == mockIPOs[ipoId]

\* submitBid(auction, bidder, quantity, maxPrice, now): the error kind, or "Accepted"
submitBid(quantity, maxPrice) ==
    IF engine.status # "active" THEN "InvalidState"
    ELSE IF quantity <= 0 \/ quantity > engine.availableSupply THEN "InvalidQuantity"
    ELSE IF maxPrice < LinearPrice(Auction, now) THEN "PriceTooLow"
    ELSE "Accepted"

\* the auction after an accepted bid of the given quantity
AfterBid(quantity) ==
    [ status |-> IF engine.availableSupply = quantity THEN "soldout" ELSE "active",
      availableSupply |-> engine.availableSupply - quantity ]

\* api.nostromo.placeBid(ipoId, { quantity, max_price }), answered by submitBid
ApiPlaceBid ==
    /\ Len(engineBids) < MaxEngineBids
    /\ \E quantity \in {0, 1, engine.availableSupply, engine.availableSupply + 1},
          max_price \in {Auction.minPrice, Auction.maxPrice} :
          LET result == submitBid(quantity, max_price)
          IN  /\ apiResult' = result
              /\ IF result = "Accepted"
                 THEN /\ engine' = AfterBid(quantity)
                      /\ engineBids' = Append(engineBids,
                             [ quantity |-> quantity, maxPrice |-> max_price,
                               price |-> LinearPrice(Auction, now) ])
                 ELSE UNCHANGED << engine, engineBids >>
    /\ UNCHANGED << now, now0, ipoId, hookVars, launchpadVars, marketVars,
                    pageVars, sdkVars >>

\* a finalize that settles the status anew whatever the status is
FinalizedStatusRecomputed ==
    IF engine.availableSupply = 0 THEN "soldout"
    ELSE IF now >= Auction.endTime THEN "ended"
    ELSE engine.status

\* finalize(auction, now): the status the auction has afterwards
FinalizedStatus ==
    IF engine.status \in Terminal THEN engine.status
    ELSE IF engine.availableSupply = 0 THEN "soldout"
    ELSE IF now >= Auction.endTime THEN "ended"
    ELSE engine.status

\* finalize(auction, now)
finalize ==
    /\ engine' = [engine EXCEPT !.status = FinalizedStatus]
    /\ apiResult' = IF FinalizedStatus \in Terminal THEN FinalizedStatus
                    ELSE "NotYetEligible"
    /\ UNCHANGED << now, now0, ipoId, hookVars, launchpadVars, marketVars,
                    pageVars, sdkVars, engineBids >>

\* a cancel that is accepted in every status
CancelledStatusAlways == "cancelled"

\* cancel(auction): the status the auction has afterwards
CancelledStatus ==
    IF engine.status \in {"pending", "active"} THEN "cancelled" ELSE engine.status

\* cancel(auction)
cancel ==
    /\ engine' = [engine EXCEPT !.status = CancelledStatus]
    /\ apiResult' = IF engine.status \in {"pending", "active"} THEN "cancelled"
                    ELSE "InvalidState"
    /\ UNCHANGED << now, now0, ipoId, hookVars, launchpadVars, marketVars,
                    pageVars, sdkVars, engineBids >>

\* ten seconds pass for the engine; a pending auction becomes active at startTime
EngineClock ==
    /\ now < now0 + MaxElapsed
    /\ now' = now + 1
    /\ engine' = [engine EXCEPT
                    !.status = IF @ = "pending" /\ now + 1 >= Auction.startTime
                               THEN "active" ELSE @]
    /\ UNCHANGED << now0, ipoId, hookVars, launchpadVars, marketVars,
                    pageVars, sdkVars, engineBids, apiResult >>

InitEngine ==
    /\ ipoId \in DOMAIN mockIPOs
    /\ now \in OpeningTimes(MockFallback(ipoId))
    /\ now0 = now
    /\ Mounted({"alice"})

NextEngine ==
    \/ EngineClock
    \/ ApiPlaceBid
    \/ finalize
    \/ cancel

SpecEngine == InitEngine /\ [][NextEngine]_vars

----------------------------------------------------------------------------
(* useWebSocket *)

\* connect(): nothing while the held socket is OPEN; else new WebSocket(url),
\* in readyState CONNECTING, which wsRef holds from now on
connect(ss, ref) ==
    IF ref # 0 /\ ss[ref] = "OPEN"
    THEN [ sockets |-> ss, wsRef |-> ref ]
    ELSE [ sockets |-> Append(ss, "CONNECTING"), wsRef |-> Len(ss) + 1 ]

\* wsRef.current?.close(): a socket that is CONNECTING or OPEN becomes CLOSING,
\* its close event follows later
close(ss, ref) ==
    IF ref # 0 /\ ss[ref] \in {"CONNECTING", "OPEN"}
    THEN [ss EXCEPT ![ref] = "CLOSING"]
    ELSE ss

\* connect() would call new WebSocket
Creates(ref) == ref = 0 \/ sockets[ref] # "OPEN"

\* useEffect(() => { connect(); return () => disconnect(); }): the first run
EffectRuns ==
    /\ wsEffect = "idle"
    /\ wsEffect' = "active"
    /\ sockets' = connect(sockets, wsRef).sockets
    /\ wsRef' = connect(sockets, wsRef).wsRef
    /\ UNCHANGED << now, now0, ipoId, launchpadVars, marketVars, pageVars, sdkVars, engineVars,
                    reconnectCount, reconnectTimers, reconnectTimeoutRef, isConnected,
                    closeOutcome, noteVars, wizardVars, modalVars >>

\* a render with a new onMessage, hence a new connect: the effect is cleaned up
\* (disconnect) and run again (connect)
EffectReruns ==
    /\ wsEffect = "active"
    /\ Len(sockets) < MaxSockets
    /\ reconnectTimers' = IF reconnectTimeoutRef THEN reconnectTimers - 1 ELSE reconnectTimers
    /\ reconnectTimeoutRef' = FALSE
    /\ sockets' = connect(close(sockets, wsRef), 0).sockets
    /\ wsRef' = connect(close(sockets, wsRef), 0).wsRef
    /\ UNCHANGED << now, now0, ipoId, launchpadVars, marketVars, pageVars, sdkVars, engineVars,
                    reconnectCount, isConnected, wsEffect,
                    closeOutcome, noteVars, wizardVars, modalVars >>

\* the component unmounts: disconnect() clears the timeout reconnectTimeoutRef
\* holds, closes the held socket and drops it
EffectCleanup ==
    /\ wsEffect = "active"
    /\ wsEffect' = "cleaned"
    /\ reconnectTimers' = IF reconnectTimeoutRef THEN reconnectTimers - 1 ELSE reconnectTimers
    /\ reconnectTimeoutRef' = FALSE
    /\ sockets' = close(sockets, wsRef)
    /\ wsRef' = 0
    /\ UNCHANGED << now, now0, ipoId, launchpadVars, marketVars, pageVars, sdkVars, engineVars,
                    reconnectCount, isConnected,
                    closeOutcome, noteVars, wizardVars, modalVars >>

\* setIsConnected(value): React drops the update of an unmounted component
setIsConnected(value) == IF wsEffect = "cleaned" THEN isConnected ELSE value

\* ws.onopen of a socket whose handshake completed
SocketOpens(i) ==
    /\ sockets[i] = "CONNECTING"
    /\ sockets' = [sockets EXCEPT ![i] = "OPEN"]
    /\ isConnected' = setIsConnected(TRUE)
    /\ reconnectCount' = 0
    /\ UNCHANGED << now, now0, ipoId, launchpadVars, marketVars, pageVars, sdkVars, engineVars,
                    wsRef, reconnectTimers, reconnectTimeoutRef, wsEffect,
                    closeOutcome, noteVars, wizardVars, modalVars >>

\* a reconnect that is scheduled whatever the count is
MayReconnectAlways == TRUE

\* if (reconnectCountRef.current < reconnectAttempts)
MayReconnect == reconnectCount < reconnectAttempts

\* ws.onclose of a socket that failed, was closed by the server or by close()
SocketCloses(i) ==
    /\ sockets[i] # "CLOSED"
    /\ sockets' = [sockets EXCEPT ![i] = "CLOSED"]
    /\ isConnected' = setIsConnected(FALSE)
    /\ IF MayReconnect
       THEN /\ reconnectCount' = reconnectCount + 1
            /\ reconnectTimers' = reconnectTimers + 1
            /\ reconnectTimeoutRef' = TRUE
            /\ closeOutcome' = "scheduled"
       ELSE /\ closeOutcome' = "exhausted"
            /\ UNCHANGED << reconnectCount, reconnectTimers, reconnectTimeoutRef >>
    /\ UNCHANGED << now, now0, ipoId, launchpadVars, marketVars, pageVars, sdkVars, engineVars,
                    wsRef, wsEffect, noteVars, wizardVars, modalVars >>

\* the oldest reconnect timeout fires: connect(). The timeout reconnectTimeoutRef
\* holds is the newest, it fires when it is the only one left
ReconnectFires ==
    /\ reconnectTimers > 0
    /\ Creates(wsRef) => Len(sockets) < MaxSockets
    /\ reconnectTimers' = reconnectTimers - 1
    /\ reconnectTimeoutRef' = (reconnectTimeoutRef /\ reconnectTimers > 1)
    /\ sockets' = connect(sockets, wsRef).sockets
    /\ wsRef' = connect(sockets, wsRef).wsRef
    /\ UNCHANGED << now, now0, ipoId, launchpadVars, marketVars, pageVars, sdkVars, engineVars,
                    reconnectCount, isConnected, wsEffect,
                    closeOutcome, noteVars, wizardVars, modalVars >>

\* a component that uses the hook is rendered for the first time
InitWs ==
    /\ ipoId = "1"
    /\ now \in OpeningTimes(MockFallback(ipoId))
    /\ now0 = now
    /\ Mounted({"alice"})

NextWs ==
    \/ EffectRuns
    \/ EffectReruns
    \/ EffectCleanup
    \/ \E i \in 1..Len(sockets) : SocketOpens(i)
    \/ \E i \in 1..Len(sockets) : SocketCloses(i)
    \/ ReconnectFires

SpecWs == InitWs /\ [][NextWs]_vars

----------------------------------------------------------------------------
(* CreateAssetPage: the create-asset wizard *)

\* the asset types of the first step the model chooses from
AssetTypes == { "real_estate", "commodity" }

\* the required text inputs of the second step
RequiredFields == { "name", "description", "valuation", "totalSupply" }

\* what the visitor types: each required input is filled in, and the name is
\* cleared again
FieldEdits ==
    { [ field |-> f, value |-> "x" ] : f \in RequiredFields }
        \cup { [ field |-> "name", value |-> "" ] }

\* the files the visitor has at hand
Files == { "deed.pdf", "appraisal.pdf" }

\* onClick of an asset type card: setFormData({ ...prev, assetType })
selectAssetType ==
    /\ wizardStep = 1
    /\ \E type \in AssetTypes : formData' = [formData EXCEPT !.assetType = type]
    /\ UNCHANGED << now, now0, ipoId, launchpadVars, marketVars, pageVars, sdkVars, engineVars,
                    wsVars, noteVars, modalVars,
                    wizardStep, verifyPending, verificationResult, created >>

\* onChange of an input of the second step: setFormData({ ...prev, [field]: value })
setField ==
    /\ wizardStep = 2
    /\ \E e \in FieldEdits : formData' = [formData EXCEPT ![e.field] = e.value]
    /\ UNCHANGED << now, now0, ipoId, launchpadVars, marketVars, pageVars, sdkVars, engineVars,
                    wsVars, noteVars, modalVars,
                    wizardStep, verifyPending, verificationResult, created >>

\* handleFileUpload(files, 'documents')
handleFileUpload ==
    /\ wizardStep = 3
    /\ \E file \in Files \ formData.documents :
          formData' = [formData EXCEPT !.documents = @ \cup {file}]
    /\ UNCHANGED << now, now0, ipoId, launchpadVars, marketVars, pageVars, sdkVars, engineVars,
                    wsVars, noteVars, modalVars,
                    wizardStep, verifyPending, verificationResult, created >>

\* removeFile(index, 'documents')
removeFile ==
    /\ wizardStep = 3
    /\ \E file \in formData.documents :
          formData' = [formData EXCEPT !.documents = @ \ {file}]
    /\ UNCHANGED << now, now0, ipoId, launchpadVars, marketVars, pageVars, sdkVars, engineVars,
                    wsVars, noteVars, modalVars,
                    wizardStep, verifyPending, verificationResult, created >>

\* handleNext, the onClick of Next / Verify with AI, which is shown before step
\* 4 and disabled while verifyMutation.isPending
handleNext ==
    /\ wizardStep \in 1..3
    /\ verifyPending = NoForm
    /\ IF wizardStep = 1 /\ formData.assetType = ""
       THEN UNCHANGED << wizardStep, verifyPending >>
       ELSE IF wizardStep = 2 /\ \E field \in RequiredFields : formData[field] = ""
       THEN UNCHANGED << wizardStep, verifyPending >>
       ELSE IF wizardStep = 3
       THEN /\ formData.documents # {}
            /\ verifyPending' = formData
            /\ UNCHANGED wizardStep
       ELSE /\ wizardStep' = wizardStep + 1
            /\ UNCHANGED verifyPending
    /\ UNCHANGED << now, now0, ipoId, launchpadVars, marketVars, pageVars, sdkVars, engineVars,
                    wsVars, noteVars, modalVars,
                    formData, verificationResult, created >>

\* handleBack, the onClick of Back, which is shown on steps 2 and 3
handleBack ==
    /\ wizardStep > 1
    /\ wizardStep # 4
    /\ wizardStep' = wizardStep - 1
    /\ UNCHANGED << now, now0, ipoId, launchpadVars, marketVars, pageVars, sdkVars, engineVars,
                    wsVars, noteVars, modalVars,
                    formData, verifyPending, verificationResult, created >>

\* Math.floor(Math.random() * 20) + 80, its least and its greatest value
Scores == { 80, 99 }

\* verifyMutation: mutationFn resolves three seconds after mutate(formData),
\* then onSuccess; of is the data mutate was called with
VerifySettled ==
    /\ verifyPending # NoForm
    /\ \E score \in Scores :
          verificationResult' = [ score |-> score, of |-> verifyPending ]
    /\ wizardStep' = 4
    /\ verifyPending' = NoForm
    /\ UNCHANGED << now, now0, ipoId, launchpadVars, marketVars, pageVars, sdkVars, engineVars,
                    wsVars, noteVars, modalVars,
                    formData, created >>

\* Back on step 4: setStep(3), shown when no verification is pending
BackToDocuments ==
    /\ wizardStep = 4
    /\ verifyPending = NoForm
    /\ wizardStep' = 3
    /\ UNCHANGED << now, now0, ipoId, launchpadVars, marketVars, pageVars, sdkVars, engineVars,
                    wsVars, noteVars, modalVars,
                    formData, verifyPending, verificationResult, created >>

\* Create Asset on step 4, shown when a verificationResult is stored:
\* createAssetMutation.mutate(formData), which resolves two seconds later and
\* leaves the page through router.push (step 0; what is clicked in those two
\* seconds is left out). verified is the data the result was computed from
CreateAsset ==
    /\ wizardStep = 4
    /\ verificationResult # NoResult
    /\ created' = Append(created, [ data |-> formData, verified |-> verificationResult.of ])
    /\ wizardStep' = 0
    /\ formData' = EmptyForm
    /\ verificationResult' = NoResult
    /\ UNCHANGED << now, now0, ipoId, launchpadVars, marketVars, pageVars, sdkVars, engineVars,
                    wsVars, noteVars, modalVars, verifyPending >>

\* a visitor opens the wizard
InitWizard ==
    /\ ipoId = "1"
    /\ now \in OpeningTimes(MockFallback(ipoId))
    /\ now0 = now
    /\ Mounted({"alice"})

NextWizard ==
    \/ selectAssetType
    \/ setField
    \/ handleFileUpload
    \/ removeFile
    \/ handleNext
    \/ handleBack
    \/ VerifySettled
    \/ BackToDocuments
    \/ CreateAsset

SpecWizard == InitWizard /\ [][NextWizard]_vars

----------------------------------------------------------------------------
(* useNotifications *)

\* message.type of the messages that are no notifications, and of one that is
ControlTypes == { "pong", "connected", "ack_confirmed" }
MessageTypes == ControlTypes \cup { "trade_executed" }

\* the id of the next notification the server sends: ids are not reused
NextNotificationId ==
    LET sent == {0} \cup { notifications[i] : i \in 1..Len(notifications) } \cup acknowledged
    IN  1 + CHOOSE n \in sent : \A m \in sent : m <= n

\* onMessage: a message of the user channel arrives; a notification is put in
\* front of the first KeptOlder ones and counted as unread
MessageArrives ==
    /\ NextNotificationId <= MaxNotifications
    /\ \E type \in MessageTypes :
          IF type \notin ControlTypes
          THEN /\ notifications' = << NextNotificationId >>
                                     \o SubSeq(notifications, 1,
                                               IF Len(notifications) < KeptOlder
                                               THEN Len(notifications) ELSE KeptOlder)
               /\ unreadCount' = unreadCount + 1
          ELSE UNCHANGED << notifications, unreadCount >>
    /\ UNCHANGED << now, now0, ipoId, launchpadVars, marketVars, pageVars, sdkVars, engineVars,
                    wsVars, wizardVars, modalVars, acknowledged >>

\* acknowledge(notificationId), called for a notification of the list
acknowledge ==
    /\ \E i \in 1..Len(notifications) :
          acknowledged' = acknowledged \cup { notifications[i] }
    /\ unreadCount' = Max(0, unreadCount - 1)
    /\ UNCHANGED << now, now0, ipoId, launchpadVars, marketVars, pageVars, sdkVars, engineVars,
                    wsVars, wizardVars, modalVars, notifications >>

\* clearAll()
clearAll ==
    /\ notifications' = << >>
    /\ unreadCount' = 0
    /\ UNCHANGED << now, now0, ipoId, launchpadVars, marketVars, pageVars, sdkVars, engineVars,
                    wsVars, wizardVars, modalVars, acknowledged >>

\* a component that uses the hook is rendered for the first time
InitNotifications ==
    /\ ipoId = "1"
    /\ now \in OpeningTimes(MockFallback(ipoId))
    /\ now0 = now
    /\ Mounted({"alice"})

NextNotifications ==
    \/ MessageArrives
    \/ acknowledge
    \/ clearAll

SpecNotifications == InitNotifications /\ [][NextNotifications]_vars

----------------------------------------------------------------------------
(* WalletConnectModal and useQubicWallet *)

\* the address handleConnect('demo') generates
DemoAddresses == { "DEMOAAAA" }

\* the Qubic Wallet button of the 'select' view: handleConnect('qubic') starts
\* with the wallet of the render it was created in and awaits connect()
ClickQubicWallet ==
    /\ modalStep = "select"
    /\ modalConnect = "idle"
    /\ Len(WalletEvents) < MaxWalletEvents
    /\ modalStep' = "connecting"
    /\ handlerWallet' = hookWallet
    /\ modalConnect' = "connect"
    /\ UNCHANGED << now, now0, ipoId, launchpadVars, marketVars, pageVars, sdkVars, engineVars,
                    wsVars, noteVars, wizardVars, hookWallet >>

\* useQubicWallet.connect: qubicSDK.connect() resolves, the hook's listener of
\* 'connected' stores the wallet, and the handler starts its wait
ConnectResolves ==
    /\ modalConnect = "connect"
    /\ \E address \in WalletAddresses :
          /\ Connected(address)
          /\ hookWallet' = address
    /\ modalConnect' = "wait"
    /\ UNCHANGED << now, now0, ipoId, launchpadVars, marketVars, pageVars, engineVars,
                    wsVars, noteVars, wizardVars, sdkTxs, sdkBids, modalStep, handlerWallet >>

\* useQubicWallet.connect: qubicSDK.connect() rejects, the hook catches the
\* error, and the handler starts its wait
ConnectRejects ==
    /\ modalConnect = "connect"
    /\ sdkError' = "Wallet connection failed"
    /\ modalConnect' = "wait"
    /\ UNCHANGED << now, now0, ipoId, launchpadVars, marketVars, pageVars, engineVars,
                    wsVars, noteVars, wizardVars, wallet, sdkAddress, sdkTxs, sdkBids, sdkEvents,
                    modalStep, hookWallet, handlerWallet >>

\* the success branch of handleConnect: connectWallet(address), step
\* 'connected', and the timer that closes the dialog is set
ModalConnected(address) ==
    /\ setUser("alice", address, TRUE)
    /\ modalStep' = "connected"
    /\ modalConnect' = "close"

\* the catch branch of handleConnect
ModalFailed ==
    /\ modalStep' = "error"
    /\ modalConnect' = "idle"
    /\ UNCHANGED << walletAddress, isWalletConnected >>

\* handleConnect('qubic') after its wait of 500 ms: if (wallet) ... else throw
WaitElapses ==
    /\ modalConnect = "wait"
    /\ IF Truthy(handlerWallet) THEN ModalConnected(handlerWallet) ELSE ModalFailed
    /\ UNCHANGED << now, now0, ipoId, launchpadVars, marketVars, sdkVars, engineVars,
                    wsVars, noteVars, wizardVars,
                    ipo, currentPrice, bidAmount, tokenQuantity, timeLeft, priceInterval,
                    bidPending, lastToast, bids, hookWallet, handlerWallet >>

\* the Demo Wallet button of the 'select' view
ClickDemoWallet ==
    /\ modalStep = "select"
    /\ modalConnect = "idle"
    /\ modalStep' = "connecting"
    /\ modalConnect' = "demo"
    /\ UNCHANGED << now, now0, ipoId, launchpadVars, marketVars, pageVars, sdkVars, engineVars,
                    wsVars, noteVars, wizardVars, hookWallet, handlerWallet >>

\* handleConnect('demo') after its delay of 1500 ms
DemoElapses ==
    /\ modalConnect = "demo"
    /\ \E address \in DemoAddresses : ModalConnected(address)
    /\ UNCHANGED << now, now0, ipoId, launchpadVars, marketVars, sdkVars, engineVars,
                    wsVars, noteVars, wizardVars,
                    ipo, currentPrice, bidAmount, tokenQuantity, timeLeft, priceInterval,
                    bidPending, lastToast, bids, hookWallet, handlerWallet >>

\* the timer of 2 s after a connection: onClose() and setStep('select')
CloseTimerFires ==
    /\ modalConnect = "close"
    /\ modalStep' = "select"
    /\ modalConnect' = "idle"
    /\ UNCHANGED << now, now0, ipoId, launchpadVars, marketVars, pageVars, sdkVars, engineVars,
                    wsVars, noteVars, wizardVars, hookWallet, handlerWallet >>

\* the Try Again button of the 'error' view
TryAgain ==
    /\ modalStep = "error"
    /\ modalStep' = "select"
    /\ UNCHANGED << now, now0, ipoId, launchpadVars, marketVars, pageVars, sdkVars, engineVars,
                    wsVars, noteVars, wizardVars, hookWallet, handlerWallet, modalConnect >>

\* the header with its dialog is rendered for the first time
InitModal ==
    /\ ipoId = "1"
    /\ now \in OpeningTimes(MockFallback(ipoId))
    /\ now0 = now
    /\ Mounted({"alice"})

NextModal ==
    \/ ClickQubicWallet
    \/ ConnectResolves
    \/ ConnectRejects
    \/ WaitElapses
    \/ ClickDemoWallet
    \/ DemoElapses
    \/ CloseTimerFires
    \/ TryAgain
    \/ StoreDisconnectWallet("alice")

SpecModal == InitModal /\ [][NextModal]_vars

----------------------------------------------------------------------------
(* Properties of the detail page *)

\* tokens of auction a sold before the pages were opened
SoldBefore(a) == mockIPOs[a.id].totalTokens - mockIPOs[a.id].availableTokens

\* what a fetch of the auction would deliver in this state
FetchResults ==
    { MockFallback(ipoId) }
        \cup (IF ipoId \in DOMAIN mockIPOs THEN { ServerIPO(ipoId, now) } ELSE {})

\* page b submits a bid in this step
Submits(b) == bidPending[b] = NoBid /\ bidPending'[b] # NoBid
\* the bid of page b is reported as placed in this step
Accepts(b) == bidPending[b] # NoBid /\ bidPending'[b] = NoBid

\* C1: the supply reported for the auction is the total supply minus the
\* quantities of all accepted bids (those placed before the pages opened and
\* those placed from the pages), and lies between 0 and the total supply.
C1_CapacityInvariant ==
    \A d \in FetchResults :
        /\ d.availableTokens = d.totalTokens - SoldBefore(d) - SumQuantity(bids)
        /\ 0 <= d.availableTokens
        /\ d.availableTokens <= d.totalTokens

C4_MonotonicPrice ==
    [][ \A b \in Bidders : ipo[b] # NoIPO => currentPrice'[b] <= currentPrice[b] ]_vars

\* C5: no bid is submitted whose price is below the live price of the auction.
C5_PriceTooLow ==
    [][ \A b \in Bidders : Submits(b) => bidPending'[b].price >= currentPrice[b] ]_vars

\* C6: no bid is submitted whose quantity is below 1 or above the available
\* supply of the auction.
C6_InvalidQuantity ==
    [][ \A b \in Bidders :
          Submits(b) => /\ bidPending'[b].quantity >= 1
                        /\ bidPending'[b].quantity <= ipo[b].availableTokens ]_vars

\* C8: the step that reports a bid as placed lowers the available supply by
\* the quantity of the bid, and the auction is sold out exactly when that
\* leaves no supply.
C8_AtomicDecrement ==
    [][ \A b \in Bidders :
          Accepts(b) =>
            /\ ipo'[b].availableTokens = ipo[b].availableTokens - bidPending[b].quantity
            /\ (ipo'[b].status = "soldout") <=> (ipo'[b].availableTokens = 0)
      ]_vars

\* C10: no bid is submitted or reported as placed once the endTime of the
\* auction has passed.
C10_NoBidAfterEnd ==
    [][ \A b \in Bidders : (Submits(b) \/ Accepts(b)) => now < ipo[b].endTime ]_vars

\* C2: under every interleaving of the bidders' steps the accepted bids
\* together never take more than the supply that was available, and no bid is
\* accepted whose quantity exceeds what the earlier accepted bids left.
C2_NoOverselling ==
    \A k \in 1..Len(bids) :
        SumQuantity(SubSeq(bids, 1, k)) <= MockFallback(ipoId).availableTokens

\* C7: no bid entry point submits a bid on an auction whose status is not
\* active: every placeBid of the SDK names an active auction, and every bid
\* submitted from a page is submitted while the page shows the auction active.
C7_InvalidState ==
    /\ \A i \in 1..Len(sdkBids) : sdkBids[i].status = "active"
    /\ \A b \in Bidders : bidPending[b] # NoBid => ipo[b].status = "active"

\* the status transitions of an auction: Pending -> Active -> {SoldOut, Ended},
\* and Cancelled from Pending or Active
AllowedTransition(from, to) ==
    \/ from = "pending" /\ to \in {"active", "cancelled"}
    \/ from = "active" /\ to \in {"soldout", "ended", "cancelled"}

\* C9: the status of the auction changes only along the allowed transitions;
\* soldout, ended and cancelled are never left.
C9_StatusTransitions ==
    [][ engine'.status # engine.status
            => AllowedTransition(engine.status, engine'.status) ]_vars

\* C9 witness: an operation has been refused on an auction in a terminal status
C9_Witness ==
    /\ engine.status \in Terminal
    /\ apiResult = "InvalidState"

----------------------------------------------------------------------------
(* Properties of the settlement resolver *)

\* C11: finalize called on an auction that is already soldout, ended or
\* cancelled returns that status and changes neither the auction nor its bids,
\* however often it is called.
C11_IdempotentFinalize ==
    [][ (engine.status \in Terminal /\ finalize)
            => /\ engine' = engine
               /\ engineBids' = engineBids
               /\ apiResult' = engine.status ]_vars

\* C11 witness: finalize has answered for an auction that a bid had sold out
C11_Witness ==
    /\ engine.status = "soldout"
    /\ engineBids # << >>
    /\ apiResult = "soldout"

----------------------------------------------------------------------------
(* Properties of failed bids *)

\* the page of bidder b refuses a bid in this step
Refuses(b) ==
    /\ lastToast'[b] # lastToast[b]
    /\ lastToast'[b] \in {"Invalid Bid", "Invalid Quantity"}

\* the placeBid of the SDK fails in this step
SdkBidFails ==
    /\ Len(sdkBids') = Len(sdkBids) + 1
    /\ sdkBids'[Len(sdkBids')].call = "failed"

\* C12: a bid that fails leaves nothing behind: a page that refuses a bid
\* records and submits none, and a placeBid whose contract call fails has sent
\* no funds transaction.
C12_NoPartialState ==
    [][ /\ \A b \in Bidders :
              Refuses(b) => bidPending' = bidPending /\ bids' = bids /\ ipo' = ipo
        /\ SdkBidFails => sdkTxs' = sdkTxs ]_vars

----------------------------------------------------------------------------
(* Properties of the price *)

\* C13: at every time the current price of a loaded auction is the linear
\* decay maxPrice - elapsedFraction * (maxPrice - minPrice), the elapsed
\* fraction of the auction window being clamped to [0, 1].
C13_LinearDecay ==
    \A b \in Bidders :
        ipo[b] # NoIPO => currentPrice[b] = LinearPrice(ipo[b], now)

\* C14: before startTime the current price of a loaded auction is maxPrice,
\* and from endTime on it is minPrice.
C14_WindowBoundaries ==
    \A b \in Bidders :
        ipo[b] # NoIPO =>
            /\ now < ipo[b].startTime => currentPrice[b] = ipo[b].maxPrice
            /\ now >= ipo[b].endTime => currentPrice[b] = ipo[b].minPrice

\* C15: a bid reported as placed settles at the current price of the auction
\* at that moment, not at the price the bidder typed.
C15_ContinuousClearing ==
    [][ \A b \in Bidders : Accepts(b) => bidPending[b].price = currentPrice[b] ]_vars

\* pages a and b show an auction with the same parameters
SameAuction(a, b) ==
    /\ ipo[a] # NoIPO
    /\ ipo[b] # NoIPO
    /\ ipo[a].id = ipo[b].id
    /\ ipo[a].maxPrice = ipo[b].maxPrice
    /\ ipo[a].minPrice = ipo[b].minPrice
    /\ ipo[a].startTime = ipo[b].startTime
    /\ ipo[a].endTime = ipo[b].endTime

\* C16: the price is a function of the auction and the time: two pages that
\* show the same auction at the same time show the same current price,
\* whenever each was opened or reloaded and however many ticks each has run.
C16_DeterministicPrice ==
    \A a, b \in Bidders : SameAuction(a, b) => currentPrice[a] = currentPrice[b]

----------------------------------------------------------------------------
(* Properties of the launchpad *)

----------------------------------------------------------------------------
(* Properties of the fees *)

\* C19: the fee shown on an IPO bid is 1% of price times quantity, in whole
\* basis points, and the total cost is price times quantity plus that fee.
C19_IpoFee ==
    \A b \in Bidders :
        ipo[b] # NoIPO =>
            /\ PlatformFee(b) = BasisPoints(totalCost(b), IpoFeeBps)
            /\ SummaryTotalCost(b) = totalCost(b) + BasisPoints(totalCost(b), IpoFeeBps)

\* page b submits an order in this step
OrderSubmits(b) == orderPending[b] = NoOrder /\ orderPending'[b] # NoOrder

\* C20: an order is submitted only with the wallet connected and a positive
\* amount and price; the fee shown for it is 0.3% of amount times price, in
\* whole basis points, a buyer pays amount times price plus the fee and a
\* seller receives amount times price minus the fee.
C20_TradingFee ==
    [][ \A b \in Bidders :
          OrderSubmits(b) =>
            LET o == orderPending'[b]
                v == Value(Number(o.quantity, 0), Number(o.pricePerToken, 0))
                fee == BasisPoints(v, TradingFeeBps)
            IN  /\ isWalletConnected[b]
                /\ o.quantity > 0
                /\ o.pricePerToken > 0
                /\ OrderFee(b) = fee
                /\ o.type = "buy" => OrderSettlement(b) = v + fee
                /\ o.type = "sell" => OrderSettlement(b) = v - fee ]_vars

----------------------------------------------------------------------------
(* Properties of useWebSocket *)

\* C21: once the cleanup of the effect (disconnect) has run, the hook creates
\* no further WebSocket and no reconnect timeout is pending, however the close
\* event of its socket is ordered against the cleanup.
C21_NoReconnectAfterCleanup ==
    [][ wsEffect' = "cleaned" =>
          /\ reconnectTimers' = 0
          /\ wsEffect = "cleaned" => Len(sockets') = Len(sockets) ]_vars

\* C22: a reconnect is scheduled only while fewer than reconnectAttempts were
\* scheduled since the last open, each one counts, the count never exceeds
\* reconnectAttempts, an open resets it to 0, and a close at the limit
\* schedules nothing.
C22_BoundedReconnect ==
    [][ /\ reconnectCount' <= reconnectAttempts
        /\ reconnectTimers' > reconnectTimers =>
              /\ reconnectCount < reconnectAttempts
              /\ reconnectCount' = reconnectCount + 1
        /\ (\E i \in 1..Len(sockets) : sockets[i] = "CONNECTING" /\ sockets'[i] = "OPEN") =>
              reconnectCount' = 0
        /\ (/\ reconnectCount = reconnectAttempts
            /\ \E i \in 1..Len(sockets) : sockets[i] # "CLOSED" /\ sockets'[i] = "CLOSED") =>
              /\ reconnectTimers' = reconnectTimers
              /\ reconnectCount' = reconnectCount ]_vars

\* C22 witness: a socket closed when reconnectAttempts reconnects had been
\* scheduled since the last open, and onclose scheduled none
C22_Witness ==
    /\ reconnectCount = reconnectAttempts
    /\ closeOutcome = "exhausted"

\* no open or close event of a socket of the hook is to be delivered
NoSocketEventPending ==
    \A i \in 1..Len(sockets) : sockets[i] \in {"OPEN", "CLOSED"}

\* C23: while the hook is mounted and no socket event is pending, isConnected
\* is true exactly when the held socket is OPEN; and at most one socket of the
\* hook is connecting or open at a time.
C23_ConnectedIffOpen ==
    /\ (wsEffect = "active" /\ NoSocketEventPending) =>
          (isConnected <=> (wsRef # 0 /\ sockets[wsRef] = "OPEN"))
    /\ Cardinality({ i \in 1..Len(sockets) : sockets[i] \in {"CONNECTING", "OPEN"} }) <= 1

----------------------------------------------------------------------------
(* Properties of the QubicSDK *)

\* the events of the given types about transaction i, as places in sdkEvents
EventsOf(log, types, i) ==
    { k \in 1..Len(log) : log[k].type \in types /\ log[k].tx = i }

\* tx.status of the i-th transaction of the run, "none" before it is created
TxStatus(i) == IF i <= Len(sdkTxs) THEN sdkTxs[i].status ELSE "none"

\* C24: a transaction of sendTransaction or transferToken is created pending,
\* never fails, changes only from pending to confirmed and never after that,
\* its transactionConfirmed event is emitted after its transactionSent or
\* tokenTransfer event, and every pending transaction is confirmed in the end.
C24_TransactionLifecycle ==
    /\ [][ /\ Len(sdkTxs') >= Len(sdkTxs)
           /\ \A i \in 1..Len(sdkTxs') :
                 IF i > Len(sdkTxs)
                 THEN sdkTxs'[i].status = "pending"
                 ELSE /\ sdkTxs'[i].status \in {sdkTxs[i].status, "confirmed"}
                      /\ sdkTxs[i].status = "confirmed" => sdkTxs'[i] = sdkTxs[i]
           /\ \A k \in 1..Len(sdkEvents') :
                 (k > Len(sdkEvents) /\ sdkEvents'[k].type = "transactionConfirmed") =>
                    /\ EventsOf(sdkEvents, {"transactionSent", "tokenTransfer"},
                                sdkEvents'[k].tx) # {}
                    /\ EventsOf(sdkEvents, {"transactionConfirmed"}, sdkEvents'[k].tx) = {} ]_vars
    /\ \A i \in 1..MaxTxs : (TxStatus(i) = "pending") ~> (TxStatus(i) = "confirmed")

\* C24 witness: a token transfer has been confirmed, its tokenTransfer event
\* before its transactionConfirmed event
C24_Witness ==
    \E i \in 1..Len(sdkTxs) :
        /\ sdkTxs[i].status = "confirmed"
        /\ \E j \in EventsOf(sdkEvents, {"tokenTransfer"}, i),
              k \in EventsOf(sdkEvents, {"transactionConfirmed"}, i) : j < k

\* the setTimeout of a transaction fires in this step
Confirms ==
    \E i \in 1..Len(sdkTxs) : sdkTxs[i].status = "pending" /\ sdkTxs'[i].status = "confirmed"

\* an operation that needs a wallet is called in this step while none is
\* connected: the step is neither a connect() nor a timeout
CalledWithoutWallet ==
    /\ ~wallet
    /\ ~wallet'
    /\ sdkError' # "Wallet connection failed"
    /\ ~Confirms

\* C25: an operation that needs a wallet and is called without one throws
\* 'Wallet not connected', emits nothing, creates no transaction and no bid
\* and leaves the wallet as it is; isConnected() is true exactly when
\* getWallet() is not null.
C25_WalletNotConnected ==
    /\ [][ CalledWithoutWallet =>
              /\ sdkError' = "Wallet not connected"
              /\ UNCHANGED << sdkAddress, sdkTxs, sdkBids, sdkEvents >> ]_vars
    /\ [](SdkIsConnected <=> getWallet # NullAddress)

\* C25 witness: after a transaction was sent and the wallet disconnected, a
\* call has thrown 'Wallet not connected'
C25_Witness ==
    /\ ~wallet
    /\ sdkError = "Wallet not connected"
    /\ sdkTxs # << >>

----------------------------------------------------------------------------
(* Properties of the bid button and the user store *)

C29_ConnectedIffAddress ==
    \A b \in Bidders :
        /\ isWalletConnected[b] <=> Truthy(walletAddress[b])
        /\ ~isWalletConnected[b] => walletAddress[b] = NullAddress

----------------------------------------------------------------------------
(* Properties of the create-asset wizard *)

\* C27: step 4 is entered only by a verification that succeeds, and every
\* Create Asset submits form data equal to the data the stored
\* verificationResult was computed from.
C27_VerifiedDataCreated ==
    /\ [][ (wizardStep' = 4 /\ wizardStep # 4) =>
              /\ verifyPending # NoForm
              /\ verificationResult'.of = verifyPending ]_vars
    /\ [](\A i \in 1..Len(created) : created[i].data = created[i].verified)

----------------------------------------------------------------------------
(* Properties of useNotifications *)

\* the notifications of the list that were not acknowledged
Unacknowledged == { i \in 1..Len(notifications) : notifications[i] \notin acknowledged }

\* C30: unreadCount is never negative, never exceeds the number of
\* notifications held, of which there are at most 50, and equals the number of
\* held notifications that were not acknowledged.
C30_UnreadCount ==
    /\ unreadCount >= 0
    /\ Len(notifications) <= KeptOlder + 1
    /\ unreadCount <= Len(notifications)
    /\ unreadCount = Cardinality(Unacknowledged)

----------------------------------------------------------------------------
(* Properties of WalletConnectModal *)

\* handleConnect('qubic') is at the end of its wait, and the connect() it
\* awaited succeeded
QubicConnectSucceeded == modalConnect = "wait" /\ sdkError = ""

\* C28: after 'Qubic Wallet' was chosen and qubicSDK.connect() succeeded, the
\* dialog goes to step 'connected' with the store's walletAddress the address
\* of the connected wallet; step 'error' is entered only when the connection
\* failed, and step 'error' is left only for step 'select'.
C28_QubicWalletConnects ==
    [][ /\ (QubicConnectSucceeded /\ modalConnect' # "wait")
           => (modalStep' = "connected" /\ walletAddress'["alice"] = sdkAddress)
        /\ (modalStep # "error" /\ modalStep' = "error") => ~QubicConnectSucceeded
        /\ (modalStep = "error" /\ modalStep' # "error") => modalStep' = "select" ]_vars

====
